---- MODULE Spec2Model ----
(***************************************************************************)
(* A model of the node communication layer of template-node                *)
(* (src/src/template_node/base_node.py): the envelope codec, the receive   *)
(* loop, dispatch, acknowledgment tracking, handler registration, the      *)
(* query wrapper and the start/stop lifecycle of BaseNode.                 *)
(***************************************************************************)
EXTENDS Integers, Sequences, FiniteSets, TLC

(***************************************************************************)
(* Bounds of the model.                                                    *)
(***************************************************************************)
\* message ids (uuid4 values) a run may draw: 1..MaxIds
MaxIds == 2
\* readings of time.time() range over 1..MaxTime
MaxTime == 2
\* datagrams in flight between two nodes at any moment
MaxNet == 1
\* tracked envelopes the caller of Spec sends
MaxSends == 1
\* targets in one send_emergency call
MaxTargets == 3
\* keys that a received dict may lack
MaxMissing == 2
\* query_db calls of one run, at least MaxIds: 1..MaxQueries are their ids
MaxQueries == 3

(***************************************************************************)
(* MessageType, Priority and NodeMessage.                                  *)
(***************************************************************************)
MessageType == {"command", "response", "status", "emergency", "heartbeat", "data"}

Priority == 1..5

PriorityNormal == 2

PriorityEmergency == 5

\* Optional[float]: None is <<>>, a set value v is <<v>>
None == <<>>

Some(v) == <<v>>

NodeMessage(id, type, priority, source, destination, payload, timestamp, ttl, requires_ack) ==
    [message_id |-> id, type |-> type, priority |-> priority, source |-> source,
     destination |-> destination, payload |-> payload, timestamp |-> timestamp,
     ttl |-> ttl, requires_ack |-> requires_ack, ack_received |-> FALSE]

\* the handlers every node registers at construction; a key that is absent
\* from the dict maps to "absent"
\* the keys the node classes of the repository register besides the kinds
CustomKeys == {"template_command", "get_data", "set_data", "increment"}

HandlerKeys == MessageType \cup {"ack"} \cup CustomKeys

DefaultHandlers ==
    [k \in HandlerKeys |->
        CASE k = "heartbeat" -> [fn |-> "_handle_heartbeat", q |-> 0]
          [] k = "status"    -> [fn |-> "_handle_status", q |-> 0]
          [] k = "emergency" -> [fn |-> "_handle_emergency", q |-> 0]
          [] k = "ack"       -> [fn |-> "_handle_ack", q |-> 0]
          [] OTHER           -> [fn |-> "absent", q |-> 0]]

(***************************************************************************)
(* The codec.  A datagram is what recvfrom returns: bytes that are not     *)
(* UTF-8 ("binary"), text that is not JSON ("garbage"), a JSON value that  *)
(* is not an object ("array"), or a JSON object, held in obj as a function *)
(* from its keys to their values.                                          *)
(***************************************************************************)
\* a dict of the fields that _deserialize_message cannot do without
_serialize_message_Required(message) ==
    [message_id |-> message.message_id, type |-> message.type,
     priority |-> message.priority, source |-> message.source,
     destination |-> message.destination, payload |-> message.payload,
     timestamp |-> message.timestamp]

\* lines 255-265: the dict has no "ack_received" key.  An enum member is
\* held as its value, so .value reads the field, and MessageType(v),
\* Priority(v) in _deserialize_message are the tests that v is a value
_serialize_message(message) ==
    [message_id |-> message.message_id, type |-> message.type,
     priority |-> message.priority, source |-> message.source,
     destination |-> message.destination, payload |-> message.payload,
     timestamp |-> message.timestamp, ttl |-> message.ttl,
     requires_ack |-> message.requires_ack]

\* json.dumps(...).encode('utf-8')
Encode(message_data) == [form |-> "object", obj |-> {message_data}]

RequiredKeys ==
    <<"message_id", "type", "priority", "source", "destination", "payload", "timestamp">>

\* the first required key, in the order the constructor call reads them, that
\* the dict lacks (0 when none is missing)
FirstMissing(data) ==
    IF \A i \in 1..Len(RequiredKeys) : RequiredKeys[i] \in DOMAIN data THEN 0
    ELSE CHOOSE i \in 1..Len(RequiredKeys) :
            /\ RequiredKeys[i] \notin DOMAIN data
            /\ \A j \in 1..(i-1) : RequiredKeys[j] \in DOMAIN data

\* a decoder that fills in what the dict lacks or gets wrong
_deserialize_message_Lenient(data) ==
    LET get(k, default) == IF k \in DOMAIN data THEN data[k] ELSE default
    IN  [exc |-> "",
         msg |-> {NodeMessage(get("message_id", 0),
                              IF get("type", "data") \in MessageType THEN data["type"] ELSE "data",
                              IF get("priority", PriorityNormal) \in Priority
                              THEN get("priority", PriorityNormal) ELSE PriorityNormal,
                              get("source", ""), get("destination", ""),
                              get("payload", [body |-> "app"]), get("timestamp", 0),
                              get("ttl", None), get("requires_ack", FALSE))}]

\* _deserialize_message: [exc |-> the exception raised ("" when none),
\*                        msg |-> {the NodeMessage} or {}]
_deserialize_message(data) ==
    LET miss == FirstMissing(data)
        typePos == 2
        prioPos == 3
    IN  IF miss # 0 /\ (miss <= typePos \/ data["type"] \in MessageType)
                    /\ (miss <= prioPos \/ data["priority"] \in Priority)
        THEN [exc |-> "KeyError", msg |-> {}]
        ELSE IF data["type"] \notin MessageType \/ data["priority"] \notin Priority
        THEN [exc |-> "ValueError", msg |-> {}]
        ELSE [exc |-> "",
              msg |-> {NodeMessage(data["message_id"], data["type"], data["priority"],
                                   data["source"], data["destination"], data["payload"],
                                   data["timestamp"],
                                   IF "ttl" \in DOMAIN data THEN data["ttl"] ELSE None,
                                   IF "requires_ack" \in DOMAIN data
                                   THEN data["requires_ack"] ELSE FALSE)}]

\* lines 155-156 of the receive loop: data.decode('utf-8'), json.loads, then
\* _deserialize_message (data.keys() of a non-object raises AttributeError)
Decode(datagram) ==
    CASE datagram.form = "binary"  -> [exc |-> "UnicodeDecodeError", msg |-> {}]
      [] datagram.form = "garbage" -> [exc |-> "JSONDecodeError", msg |-> {}]
      [] datagram.form = "array"   -> [exc |-> "AttributeError", msg |-> {}]
      [] OTHER -> _deserialize_message(CHOOSE d \in datagram.obj : TRUE)


(***************************************************************************)
(* Configuration.  Two BaseNode instances, "A" and "B"; an address is the  *)
(* name of the endpoint bound to it.  known_nodes gives each node the      *)
(* address of the other node and of the data service "db_client";         *)
(* "ghost" is a node name no configuration lists.                          *)
(***************************************************************************)
Nodes == {"A", "B"}

Peer(n) == IF n = "A" THEN "B" ELSE "A"

known_nodes(n) == {Peer(n), "db_client"}

\* _get_node_address: the configured address, or None
_get_node_address(n, node_name) ==
    IF node_name \in known_nodes(n) THEN Some(node_name) ELSE None

\* a message id no node tracks: the uuid4 of an envelope built with
\* requires_ack=False outside query_db (replies, acknowledgments)
UntrackedId == 0

\* the payload of application envelopes, opaque to the core
AppPayload == [body |-> "app"]

Handler(fn) == [fn |-> fn, q |-> 0]

\* the closure response_handler that the query_db call with message_id q made
response_handler(q) == [fn |-> "response_handler", q |-> q]

Absent == Handler("absent")

UserHandlers == {Handler("h1"), Handler("h2")}

VARIABLES
    status,             \* self.status
    listening,          \* self.listening
    udp_socket,         \* self.udp_socket: "None", "unbound", "bound" or "closed"
    message_handlers,   \* self.message_handlers: key -> handler, Absent when no entry
    pending_acks,       \* self.pending_acks: the ids that are keys of the dict
    ack_received,       \* ids of the tracked envelopes whose ack_received was set
    db_query_callbacks, \* self._db_query_callbacks: None (no attribute) or Some(ids)
    original_handler,   \* message_id -> the original_handler its response_handler captured
    net,                \* datagrams in flight: [to, from, dg]
    loop,               \* the listen thread of each node (_listen_for_messages)
    thr,                \* the caller threads
    uuid,               \* the number of tracked uuid4 values drawn so far
    deployed,           \* the nodes that exist in this run (datagrams to others are lost)
    promised,           \* key -> the handler the last register_handler(key, h) that
                        \* returned gave it (Absent: none, or a query_db call came since)
    old,                \* the listen thread of an earlier start() of each node that
                        \* was still alive when start() made the next one
    codec               \* an envelope taken through the codec: [pc, e, data, out]

vars == <<status, listening, udp_socket, message_handlers, pending_acks, ack_received,
          db_query_callbacks, original_handler, net, loop, thr, uuid, deployed, promised,
          old, codec>>

nodeVars == <<status, listening, udp_socket>>

\* no envelope in the codec
NoCodec == [pc |-> "idle", e |-> {}, data |-> {}, out |-> {}]

\* a listen thread that was never started
NoLoop ==
    [pc |-> "none", data |-> "unbound", exc |-> "", msg |-> {}, addr |-> "",
     t |-> 0, consumed |-> "", stack |-> <<>>, ran |-> <<>>, outcome |-> "",
     sends |-> <<>>, promise |-> [fn |-> "absent", q |-> 0]]


(***************************************************************************)
(* _send_message.  The network accepts the datagram (ok) or sendto raises, *)
(* which _send_message turns into False; an accepted datagram may still be *)
(* lost.  A closed socket object is still truthy, so after stop() the      *)
(* sendto is made on the closed socket and raises.                         *)
(***************************************************************************)
SendOutcomes(n) == IF udp_socket[n] = "closed" THEN {FALSE} ELSE BOOLEAN

\* the keys of pending_acks after _send_message(message) returned ok
TrackPending(pending, message, ok) ==
    IF ok /\ message.requires_ack THEN pending \cup {message.message_id} ELSE pending

Packet(n, message, addr) ==
    [to |-> addr, from |-> n, dg |-> Encode(_serialize_message(message))]

\* the datagrams in flight after the send: the datagram is carried only when
\* the network accepted it, did not lose it, and the endpoint exists
Carried(n, message, addr, ok, lost) ==
    IF ok /\ ~lost /\ addr \in deployed /\ Cardinality(net) < MaxNet
    THEN net \cup {Packet(n, message, addr)} ELSE net

_send_message(n, message, addr, ok, lost) ==
    /\ ok \in SendOutcomes(n)
    /\ pending_acks' = [pending_acks EXCEPT ![n] = TrackPending(@, message, ok)]
    /\ net' = Carried(n, message, addr, ok, lost)

(***************************************************************************)
(* _listen_for_messages.  pc: "none" (no thread), "top" (the while test),  *)
(* "recv" (in recvfrom), "process", "handler", "ack" (inside               *)
(* _process_message), "exited" (the loop ended), "crashed" (an exception   *)
(* left the thread).  The fields exc .. promise describe the datagram      *)
(* received last, until the loop is back at its while test and goes on.    *)
(***************************************************************************)
\* a loop that does not test the flag
WhileListening_Forever(flag) == "recv"

\* line 152: while self.listening
WhileListening(flag) == IF flag THEN "recv" ELSE "exited"

LoopTop(n) ==
    /\ loop[n].pc = "top"
    /\ loop' = [loop EXCEPT ![n] =
            [NoLoop EXCEPT !.pc = WhileListening(listening[n]),
                           !.data = loop[n].data]]
    /\ UNCHANGED <<nodeVars, message_handlers, pending_acks, ack_received,
                   db_query_callbacks, original_handler, net, thr, uuid, deployed, old, codec, promised>>

\* line 165 of the except block: data.decode('utf-8') is evaluated again for
\* the log line, with data as the last recvfrom left it
LogRawData(data) == IF data \in {"unbound", "binary"} THEN "raises" ELSE "logged"

\* where the loop is after the except block of lines 160-165
AfterReceiveError(data) == IF LogRawData(data) = "raises" THEN "crashed" ELSE "top"

Receive(n, pkt) ==
    /\ loop[n].pc = "recv"
    /\ udp_socket[n] = "bound"
    /\ pkt.to = n
    /\ LET r == Decode(pkt.dg)
           data == IF pkt.dg.form = "binary" THEN "binary" ELSE "utf8"
       IN  loop' = [loop EXCEPT ![n] =
                [NoLoop EXCEPT !.pc = IF r.exc = "" THEN "process"
                                      ELSE AfterReceiveError(data),
                               !.data = data, !.exc = r.exc,
                               !.msg = r.msg, !.addr = pkt.from]]
    /\ net' = net \ {pkt}
    /\ UNCHANGED <<nodeVars, message_handlers, pending_acks, ack_received,
                   db_query_callbacks, original_handler, thr, uuid, deployed, old, codec, promised>>

\* recvfrom on the socket that stop() closed raises OSError
ReceiveError(n) ==
    /\ loop[n].pc = "recv"
    /\ udp_socket[n] = "closed"
    /\ loop' = [loop EXCEPT ![n].pc = AfterReceiveError(loop[n].data)]
    /\ UNCHANGED <<nodeVars, message_handlers, pending_acks, ack_received,
                   db_query_callbacks, original_handler, net, thr, uuid, deployed, old, codec, promised>>

\* socket.timeout after the one-second poll: continue
ReceiveTimeout(n) ==
    /\ loop[n].pc = "recv"
    /\ loop' = [loop EXCEPT ![n].pc = "top"]
    /\ UNCHANGED <<nodeVars, message_handlers, pending_acks, ack_received,
                   db_query_callbacks, original_handler, net, thr, uuid, deployed, old, codec, promised>>

(***************************************************************************)
(* _process_message, up to the handler call.                               *)
(***************************************************************************)
Msg(n) == CHOOSE m \in loop[n].msg : TRUE

\* line 297: message.ttl and time.time() > message.ttl
Expired(message, t) ==
    /\ message.ttl # None
    /\ message.ttl[1] # 0
    /\ t > message.ttl[1]

\* matching on the acknowledged id carried in the payload instead
IsPendingAck_ByAckFor(n, message) ==
    /\ message.type = "response"
    /\ "ack_for" \in DOMAIN message.payload
    /\ message.payload.ack_for \in pending_acks[n]

\* line 302
IsPendingAck(n, message) ==
    message.type = "response" /\ message.message_id \in pending_acks[n]

\* the key taken from the payload's "command" entry when there is one
handler_key_ByCommand(message) ==
    IF "command" \in DOMAIN message.payload THEN message.payload.command ELSE message.type

\* line 308
handler_key(message) == message.type

\* line 309, 311: the handler the dispatch calls, Absent when there is none
LookupHandler(n, message) == message_handlers[n][handler_key(message)]

Frame(h) == [h |-> h, pc |-> "enter"]

ProcessMessage(n, t) ==
    /\ loop[n].pc = "process"
    /\ t \in 1..MaxTime
    /\ LET message == Msg(n)
           h == LookupHandler(n, message)
       IN  IF Expired(message, t)
           THEN /\ loop' = [loop EXCEPT ![n].pc = "top", ![n].t = t,
                                        ![n].consumed = "expired"]
                /\ UNCHANGED <<pending_acks, ack_received>>
           ELSE IF IsPendingAck(n, message)
           THEN /\ ack_received' = [ack_received EXCEPT ![n] = @ \cup {message.message_id}]
                /\ pending_acks' = [pending_acks EXCEPT ![n] = @ \ {message.message_id}]
                /\ loop' = [loop EXCEPT ![n].pc = "top", ![n].t = t,
                                        ![n].consumed = "acked"]
           ELSE /\ loop' = [loop EXCEPT
                        ![n].pc = IF h = Absent THEN "ack" ELSE "handler",
                        ![n].t = t,
                        ![n].stack = IF h = Absent THEN <<>> ELSE <<Frame(h)>>,
                        ![n].promise = promised[n][handler_key(message)],
                        ![n].outcome = IF h = Absent THEN "nohandler" ELSE ""]
                /\ UNCHANGED <<pending_acks, ack_received>>
    /\ UNCHANGED <<nodeVars, message_handlers, db_query_callbacks, original_handler,
                   net, thr, uuid, deployed, old, codec, promised>>


(***************************************************************************)
(* The handler call of line 311.  stack holds the frames of the call, the  *)
(* innermost first; a response_handler that forwards to its                *)
(* original_handler pushes a frame.  An exception raised in any frame      *)
(* leaves every frame (response_handler has no try) and is caught by the   *)
(* except of line 312.                                                     *)
(***************************************************************************)
\* the frame on top returns
Returned(L) ==
    LET st == Tail(L.stack)
    IN  [L EXCEPT !.stack = st,
                  !.pc = IF st = <<>> THEN "ack" ELSE "handler",
                  !.outcome = IF st = <<>> THEN "returned" ELSE ""]

\* the acknowledgment inside the try block: a raising handler skips it
HandlerRaised_SkipsAck(L) == [L EXCEPT !.stack = <<>>, !.pc = "top", !.outcome = "raised"]

\* no except around the handler call: the exception leaves _process_message
\* and, through the except block of the loop, is only logged there
HandlerRaised_Escapes(L) == [L EXCEPT !.stack = <<>>, !.pc = "crashed", !.outcome = "raised"]

\* lines 312-313: except Exception around the handler call
HandlerRaised(L) == [L EXCEPT !.stack = <<>>, !.pc = "ack", !.outcome = "raised"]

Top(n) == Head(loop[n].stack)

InHandler(n) == loop[n].pc = "handler" /\ loop[n].stack # <<>>

\* the RESPONSE a handler sends back with _send_message(response, addr)
Reply(n, message, t) ==
    NodeMessage(UntrackedId, "response", PriorityNormal, n, message.source,
                AppPayload, t, None, FALSE)

Sent(message, addr, ok) == [msg |-> message, addr |-> addr, ok |-> ok]

\* a handler registered by the application: it returns, raises, or sends a
\* reply to the sender and returns
RunUserHandler(n, choice, ok, lost) ==
    /\ InHandler(n)
    /\ Top(n).h \in UserHandlers
    /\ choice \in {"return", "raise", "reply"}
    /\ LET L == [loop[n] EXCEPT !.ran = Append(@, Top(n).h)]
           reply == Reply(n, Msg(n), loop[n].t)
       IN  CASE choice = "return" ->
                  /\ loop' = [loop EXCEPT ![n] = Returned(L)]
                  /\ UNCHANGED <<pending_acks, net>>
             [] choice = "raise" ->
                  /\ loop' = [loop EXCEPT ![n] = HandlerRaised(L)]
                  /\ UNCHANGED <<pending_acks, net>>
             [] OTHER ->
                  /\ _send_message(n, reply, loop[n].addr, ok, lost)
                  /\ loop' = [loop EXCEPT ![n] =
                        Returned([L EXCEPT !.sends = Append(@, Sent(reply, loop[n].addr, ok))])]
    /\ UNCHANGED <<nodeVars, message_handlers, ack_received, db_query_callbacks,
                   original_handler, thr, uuid, deployed, old, codec, promised>>

\* what a default handler does: _handle_heartbeat, _handle_emergency and
\* _handle_ack return; _handle_status builds NodeMessage(id=...), a keyword
\* the dataclass does not have, which raises TypeError
DefaultHandlerResult(fn) == IF fn = "_handle_status" THEN "raise" ELSE "return"

RunDefaultHandler(n) ==
    /\ InHandler(n)
    /\ Top(n).h.fn \in {"_handle_heartbeat", "_handle_status", "_handle_emergency", "_handle_ack"}
    /\ LET L == [loop[n] EXCEPT !.ran = Append(@, Top(n).h)]
       IN  loop' = [loop EXCEPT ![n] =
                IF DefaultHandlerResult(Top(n).h.fn) = "raise"
                THEN HandlerRaised(L) ELSE Returned(L)]
    /\ UNCHANGED <<nodeVars, message_handlers, pending_acks, ack_received,
                   db_query_callbacks, original_handler, net, thr, uuid, deployed, old, codec, promised>>

(***************************************************************************)
(* Lines 317-328: the acknowledgment.                                      *)
(***************************************************************************)
\* line 318
AckRequired(message) == message.requires_ack

\* an acknowledgment that itself asks for an acknowledgment
ack_message_Tracked(n, message, t) ==
    NodeMessage(message.message_id, "response", PriorityNormal, n, message.source,
                [ack_for |-> message.message_id, status |-> "received"],
                t, None, TRUE)

\* an acknowledgment that asks for an acknowledgment but keeps its fresh id
ack_message_RequiresAck(n, message, t) ==
    NodeMessage(UntrackedId, "response", PriorityNormal, n, message.source,
                [ack_for |-> message.message_id, status |-> "received"],
                t, None, TRUE)

\* lines 319-327
ack_message(n, message, t) ==
    NodeMessage(UntrackedId, "response", PriorityNormal, n, message.source,
                [ack_for |-> message.message_id, status |-> "received"],
                t, None, FALSE)

SendAck(n, ok, lost) ==
    /\ loop[n].pc = "ack"
    /\ AckRequired(Msg(n))
    /\ LET ack == ack_message(n, Msg(n), loop[n].t)
       IN  /\ _send_message(n, ack, loop[n].addr, ok, lost)
           /\ loop' = [loop EXCEPT ![n].pc = "top",
                                   ![n].sends = Append(@, Sent(ack, loop[n].addr, ok))]
    /\ UNCHANGED <<nodeVars, message_handlers, ack_received, db_query_callbacks,
                   original_handler, thr, uuid, deployed, old, codec, promised>>

SkipAck(n) ==
    /\ loop[n].pc = "ack"
    /\ ~AckRequired(Msg(n))
    /\ loop' = [loop EXCEPT ![n].pc = "top"]
    /\ UNCHANGED <<nodeVars, message_handlers, pending_acks, ack_received,
                   db_query_callbacks, original_handler, net, thr, uuid, deployed, old, codec, promised>>


(***************************************************************************)
(* response_handler, the closure of query_db (lines 463-477), run by the   *)
(* listen thread one statement group at a time: "enter" (the tests of      *)
(* lines 466 and 469 and the callback call of line 470, or the forward of  *)
(* line 477), "called" (line 472), "popped" (lines 474-475), "forwarded"   *)
(* (the original handler returned).                                        *)
(***************************************************************************)
Callback(q) == [fn |-> "callback", q |-> q]

\* line 466
FromResponder(n, message) == message.source = "db_client" /\ message.destination = n

\* line 469
CallbackWaiting(n, q) ==
    db_query_callbacks[n] # None /\ q \in db_query_callbacks[n][1]

WrapperEnter(n, choice) ==
    /\ InHandler(n)
    /\ Top(n).h.fn = "response_handler"
    /\ Top(n).pc = "enter"
    /\ choice \in {"return", "raise"}
    /\ LET q == Top(n).h.q
           L == [loop[n] EXCEPT !.ran = Append(@, Top(n).h)]
           orig == original_handler[q]
       IN  IF FromResponder(n, Msg(n))
           THEN IF CallbackWaiting(n, q)
                THEN LET C == [L EXCEPT !.ran = Append(@, Callback(q))]
                     IN  loop' = [loop EXCEPT ![n] =
                            IF choice = "raise" THEN HandlerRaised(C)
                            ELSE [C EXCEPT !.stack[1].pc = "called"]]
                ELSE /\ choice = "return"
                     /\ loop' = [loop EXCEPT ![n] = Returned(L)]
           ELSE /\ choice = "return"
                /\ loop' = [loop EXCEPT ![n] =
                      IF orig # Absent
                      THEN [L EXCEPT !.stack =
                              <<Frame(orig), [Top(n) EXCEPT !.pc = "forwarded"]>>
                              \o Tail(L.stack)]
                      ELSE Returned(L)]
    /\ UNCHANGED <<nodeVars, message_handlers, pending_acks, ack_received,
                   db_query_callbacks, original_handler, net, thr, uuid, deployed, old, codec, promised>>

\* line 472: self._db_query_callbacks.pop(message_id, None)
WrapperPop(n) ==
    /\ InHandler(n)
    /\ Top(n).h.fn = "response_handler"
    /\ Top(n).pc = "called"
    /\ db_query_callbacks' = [db_query_callbacks EXCEPT ![n] = Some(@[1] \ {Top(n).h.q})]
    /\ loop' = [loop EXCEPT ![n].stack[1].pc = "popped"]
    /\ UNCHANGED <<nodeVars, message_handlers, pending_acks, ack_received,
                   original_handler, net, thr, uuid, deployed, old, codec, promised>>

\* lines 474-475: the dict after the wrapper put original_handler back
RestoreOriginal(handlers, orig) ==
    IF orig # Absent THEN [handlers EXCEPT !["response"] = orig] ELSE handlers

WrapperRestore(n) ==
    /\ InHandler(n)
    /\ Top(n).h.fn = "response_handler"
    /\ Top(n).pc = "popped"
    /\ message_handlers' = [message_handlers EXCEPT ![n] =
            RestoreOriginal(@, original_handler[Top(n).h.q])]
    /\ loop' = [loop EXCEPT ![n] = Returned(loop[n])]
    /\ UNCHANGED <<nodeVars, pending_acks, ack_received, db_query_callbacks,
                   original_handler, net, thr, uuid, deployed, old, codec, promised>>

\* line 477 returned
WrapperReturn(n) ==
    /\ InHandler(n)
    /\ Top(n).h.fn = "response_handler"
    /\ Top(n).pc = "forwarded"
    /\ loop' = [loop EXCEPT ![n] = Returned(loop[n])]
    /\ UNCHANGED <<nodeVars, message_handlers, pending_acks, ack_received,
                   db_query_callbacks, original_handler, net, thr, uuid, deployed, old, codec, promised>>


(***************************************************************************)
(* The caller threads.  Each runs one public operation at a time; the      *)
(* operations that are more than one statement advance one statement       *)
(* group per step.  from is the status when stop() was called, ret what    *)
(* the last finished operation returned.                                   *)
(***************************************************************************)
Threads == {"t1", "t2"}

Idle ==
    [pc |-> "idle", n |-> "", id |-> 0, orig |-> Absent, from |-> "", ret |-> "",
     todo |-> <<>>, count |-> 0, log |-> <<>>]

Busy(t, pc, n, id) == [Idle EXCEPT !.pc = pc, !.n = n, !.id = id]

Finished(t, ret) == [Idle EXCEPT !.ret = ret]

InQuery(n) ==
    \E t \in Threads :
        thr[t].n = n /\ thr[t].pc \in {"q_hasattr", "q_create", "q_store", "q_get", "q_install", "q_send"}

InStart(n) == \E t \in Threads : thr[t].n = n /\ thr[t].pc \in {"s_bind", "s_thread", "s_running"}

\* the dict rebuilt around the new entry instead of one entry stored
register_handler_Rebuild(handlers, message_type, handler) ==
    [k \in DOMAIN handlers |-> IF k = message_type THEN handler ELSE Absent]

\* line 374
register_handler(handlers, message_type, handler) ==
    [handlers EXCEPT ![message_type] = handler]

RegisterHandler(t, n, message_type, handler) ==
    /\ thr[t].pc = "idle"
    /\ message_type \in DOMAIN message_handlers[n]
    /\ message_handlers' = [message_handlers EXCEPT ![n] =
            register_handler(@, message_type, handler)]
    /\ promised' = [promised EXCEPT ![n][message_type] =
            IF message_type = "response" /\ InQuery(n) THEN Absent ELSE handler]
    /\ UNCHANGED <<nodeVars, pending_acks, ack_received, db_query_callbacks,
                   original_handler, net, loop, thr, uuid, deployed, old, codec>>

\* send_to_node: an envelope with requires_ack draws a tracked id
SendToNode(t, n, target_node, type, requires_ack, ok, lost) ==
    /\ thr[t].pc = "idle"
    /\ requires_ack => uuid < MaxIds
    /\ LET id == IF requires_ack THEN uuid + 1 ELSE UntrackedId
           message == NodeMessage(id, type, PriorityNormal, n, target_node, AppPayload,
                                  1, None, requires_ack)
           target_addr == _get_node_address(n, target_node)
       IN  IF target_addr # None
           THEN /\ _send_message(n, message, target_addr[1], ok, lost)
                /\ thr' = [thr EXCEPT ![t] =
                      [Idle EXCEPT !.ret = IF ok THEN "sent" ELSE "send_failed"]]
           ELSE /\ ok /\ ~lost
                /\ thr' = [thr EXCEPT ![t] = [Idle EXCEPT !.ret = "send_failed"]]
                /\ UNCHANGED <<pending_acks, net>>
    /\ uuid' = IF requires_ack THEN uuid + 1 ELSE uuid
    /\ UNCHANGED <<nodeVars, message_handlers, ack_received, db_query_callbacks,
                   original_handler, loop, deployed, old, codec, promised>>

\* send_to_master_core: the address is (master_core_host, master_core_port),
\* never looked up
SendToMasterCore(t, n, type, requires_ack, ok, lost) ==
    /\ thr[t].pc = "idle"
    /\ requires_ack => uuid < MaxIds
    /\ LET id == IF requires_ack THEN uuid + 1 ELSE UntrackedId
           message == NodeMessage(id, type, PriorityNormal, n, "master_core", AppPayload,
                                  1, None, requires_ack)
       IN  /\ _send_message(n, message, "master_core", ok, lost)
           /\ thr' = [thr EXCEPT ![t] =
                 [Idle EXCEPT !.ret = IF ok THEN "sent" ELSE "send_failed"]]
    /\ uuid' = IF requires_ack THEN uuid + 1 ELSE uuid
    /\ UNCHANGED <<nodeVars, message_handlers, ack_received, db_query_callbacks,
                   original_handler, loop, deployed, old, codec, promised>>

(***************************************************************************)
(* query_db with a callback (lines 432-493).                               *)
(***************************************************************************)
\* lines 433-451: the responder's address is configured; a message id is drawn
QueryBegin(t, n) ==
    /\ thr[t].pc = "idle"
    /\ uuid < MaxQueries
    /\ _get_node_address(n, "db_client") # None
    /\ uuid' = uuid + 1
    /\ thr' = [thr EXCEPT ![t] = Busy(t, "q_hasattr", n, uuid + 1)]
    /\ promised' = [promised EXCEPT ![n]["response"] = Absent]
    /\ UNCHANGED <<nodeVars, message_handlers, pending_acks, ack_received,
                   db_query_callbacks, original_handler, net, loop, deployed, old, codec>>

\* line 456: if not hasattr(self, '_db_query_callbacks')
QueryHasAttr(t) ==
    /\ thr[t].pc = "q_hasattr"
    /\ thr' = [thr EXCEPT ![t].pc =
            IF db_query_callbacks[thr[t].n] = None THEN "q_create" ELSE "q_store"]
    /\ UNCHANGED <<nodeVars, message_handlers, pending_acks, ack_received,
                   db_query_callbacks, original_handler, net, loop, uuid, deployed, old, codec, promised>>

\* line 457: self._db_query_callbacks = {}
QueryCreate(t) ==
    /\ thr[t].pc = "q_create"
    /\ db_query_callbacks' = [db_query_callbacks EXCEPT ![thr[t].n] = Some({})]
    /\ thr' = [thr EXCEPT ![t].pc = "q_store"]
    /\ UNCHANGED <<nodeVars, message_handlers, pending_acks, ack_received,
                   original_handler, net, loop, uuid, deployed, old, codec, promised>>

\* line 458: self._db_query_callbacks[message_id] = callback
QueryStore(t) ==
    /\ thr[t].pc = "q_store"
    /\ db_query_callbacks' = [db_query_callbacks EXCEPT ![thr[t].n] = Some(@[1] \cup {thr[t].id})]
    /\ thr' = [thr EXCEPT ![t].pc = "q_get"]
    /\ UNCHANGED <<nodeVars, message_handlers, pending_acks, ack_received,
                   original_handler, net, loop, uuid, deployed, old, codec, promised>>

\* line 461: original_handler = self.message_handlers.get("response")
QueryGet(t) ==
    /\ thr[t].pc = "q_get"
    /\ thr' = [thr EXCEPT ![t].pc = "q_install",
                          ![t].orig = message_handlers[thr[t].n]["response"]]
    /\ UNCHANGED <<nodeVars, message_handlers, pending_acks, ack_received,
                   db_query_callbacks, original_handler, net, loop, uuid, deployed, old, codec, promised>>

\* line 479: self.message_handlers["response"] = response_handler
QueryInstall(t) ==
    /\ thr[t].pc = "q_install"
    /\ original_handler' = [original_handler EXCEPT ![thr[t].id] = thr[t].orig]
    /\ message_handlers' = [message_handlers EXCEPT ![thr[t].n] =
            register_handler(@, "response", response_handler(thr[t].id))]
    /\ thr' = [thr EXCEPT ![t].pc = "q_send"]
    /\ UNCHANGED <<nodeVars, pending_acks, ack_received, db_query_callbacks,
                   net, loop, uuid, deployed, old, codec, promised>>

\* lines 482-493
QuerySend(t, ok, lost) ==
    /\ thr[t].pc = "q_send"
    /\ LET n == thr[t].n
           message == NodeMessage(thr[t].id, "command", PriorityNormal, n, "db_client",
                                  AppPayload, 1, None, FALSE)
       IN  _send_message(n, message, "db_client", ok, lost)
    /\ thr' = [thr EXCEPT ![t] = Finished(t, IF ok THEN "query_true" ELSE "query_false")]
    /\ UNCHANGED <<nodeVars, message_handlers, ack_received, db_query_callbacks,
                   original_handler, loop, uuid, deployed, old, codec, promised>>


(***************************************************************************)
(* start() and _start_communication (lines 109-148), with direct           *)
(* communication enabled.  start() is not called on a RUNNING node, nor    *)
(* while a listen thread of an earlier start() is still alive.             *)
(***************************************************************************)
LoopAlive(n) == loop[n].pc \notin {"none", "exited", "crashed"}

\* line 112
StartBegin(t, n) ==
    /\ thr[t].pc = "idle"
    /\ status[n] # "RUNNING"
    /\ ~LoopAlive(n)
    /\ ~InStart(n)
    /\ status' = [status EXCEPT ![n] = "STARTING"]
    /\ thr' = [thr EXCEPT ![t] = Busy(t, "s_bind", n, 0)]
    /\ UNCHANGED <<listening, udp_socket, message_handlers, pending_acks, ack_received,
                   db_query_callbacks, original_handler, net, loop, uuid, deployed, old, codec, promised>>

OldAlive(n) == old[n].pc \notin {"none", "exited", "crashed"}

\* line 112, when start() is called after a stop() that returned at the join
\* timeout: the listen thread of the earlier start() is still alive (at most
\* one such thread at a time here)
StartBeginAlive(t, n) ==
    /\ thr[t].pc = "idle"
    /\ status[n] # "RUNNING"
    /\ LoopAlive(n)
    /\ ~OldAlive(n)
    /\ ~InStart(n)
    /\ status' = [status EXCEPT ![n] = "STARTING"]
    /\ thr' = [thr EXCEPT ![t] = Busy(t, "s_bind", n, 0)]
    /\ UNCHANGED <<listening, udp_socket, message_handlers, pending_acks, ack_received,
                   db_query_callbacks, original_handler, net, loop, uuid, deployed, old, codec, promised>>

\* a failed start that leaves the node as if it had been stopped
OnStartException_Stopped == "STOPPED"

\* line 118
OnStartException == "ERROR"

\* lines 139-141, and lines 117-120 when bind raises (the port is in use):
\* self.udp_socket already names the new socket object
StartBind(t, bound) ==
    /\ thr[t].pc = "s_bind"
    /\ LET n == thr[t].n
       IN  IF bound
           THEN /\ udp_socket' = [udp_socket EXCEPT ![n] = "bound"]
                /\ thr' = [thr EXCEPT ![t].pc = "s_thread"]
                /\ UNCHANGED status
           ELSE /\ udp_socket' = [udp_socket EXCEPT ![n] = "unbound"]
                /\ status' = [status EXCEPT ![n] = OnStartException]
                /\ thr' = [thr EXCEPT ![t] = Finished(t, "start_false")]
    /\ UNCHANGED <<listening, message_handlers, pending_acks, ack_received,
                   db_query_callbacks, original_handler, net, loop, uuid, deployed, old, codec, promised>>

\* lines 143-146: self.listen_thread names the new thread; a thread of an
\* earlier start() that is still alive goes on running, no longer referenced
StartThread(t) ==
    /\ thr[t].pc = "s_thread"
    /\ listening' = [listening EXCEPT ![thr[t].n] = TRUE]
    /\ loop' = [loop EXCEPT ![thr[t].n] = [NoLoop EXCEPT !.pc = "top"]]
    /\ old' = [old EXCEPT ![thr[t].n] = IF LoopAlive(thr[t].n) THEN loop[thr[t].n] ELSE @]
    /\ thr' = [thr EXCEPT ![t].pc = "s_running"]
    /\ UNCHANGED <<status, udp_socket, message_handlers, pending_acks, ack_received,
                   db_query_callbacks, original_handler, net, uuid, deployed, codec, promised>>

\* lines 114-116
StartRunning(t) ==
    /\ thr[t].pc = "s_running"
    /\ status' = [status EXCEPT ![thr[t].n] = "RUNNING"]
    /\ thr' = [thr EXCEPT ![t] = Finished(t, "start_true")]
    /\ UNCHANGED <<listening, udp_socket, message_handlers, pending_acks, ack_received,
                   db_query_callbacks, original_handler, net, loop, uuid, deployed, old, codec, promised>>

(***************************************************************************)
(* stop() (lines 122-134).  An exception raised by a statement of the try  *)
(* block is caught by line 133: stop() returns with the status as it is.   *)
(***************************************************************************)
\* line 125
StopBegin(t, n) ==
    /\ thr[t].pc = "idle"
    /\ status' = [status EXCEPT ![n] = "STOPPING"]
    /\ thr' = [thr EXCEPT ![t] = [Busy(t, "p_listening", n, 0) EXCEPT !.from = status[n]]]
    /\ UNCHANGED <<listening, udp_socket, message_handlers, pending_acks, ack_received,
                   db_query_callbacks, original_handler, net, loop, uuid, deployed, old, codec, promised>>

\* line 126
StopListening(t) ==
    /\ thr[t].pc = "p_listening"
    /\ listening' = [listening EXCEPT ![thr[t].n] = FALSE]
    /\ thr' = [thr EXCEPT ![t].pc = "p_close"]
    /\ UNCHANGED <<status, udp_socket, message_handlers, pending_acks, ack_received,
                   db_query_callbacks, original_handler, net, loop, uuid, deployed, old, codec, promised>>

\* close() called without the test of line 127
HasSocket_Always(sock) == TRUE

\* line 127: if self.udp_socket
HasSocket(sock) == sock # "None"

\* lines 127-128: close() of None raises AttributeError
StopClose(t) ==
    /\ thr[t].pc = "p_close"
    /\ LET n == thr[t].n
       IN  IF HasSocket(udp_socket[n])
           THEN IF udp_socket[n] = "None"
                THEN /\ thr' = [thr EXCEPT ![t] = Finished(t, "stop_error")]
                     /\ UNCHANGED udp_socket
                ELSE /\ udp_socket' = [udp_socket EXCEPT ![n] = "closed"]
                     /\ thr' = [thr EXCEPT ![t].pc = "p_join"]
           ELSE /\ thr' = [thr EXCEPT ![t].pc = "p_join"]
                /\ UNCHANGED udp_socket
    /\ UNCHANGED <<status, listening, message_handlers, pending_acks, ack_received,
                   db_query_callbacks, original_handler, net, loop, uuid, deployed, old, codec, promised>>

\* line 129: if self.listen_thread
HasThread(n) == loop[n].pc # "none"

\* line 130: join(timeout=5) returns once the listen thread has ended, or at
\* the timeout; a listen thread that is not inside _process_message ends
\* within its one-second poll, so the timeout passes only over a handler
JoinReturns(n) == ~LoopAlive(n) \/ loop[n].pc \in {"process", "handler", "ack"}

\* lines 129-132
StopJoin(t) ==
    /\ thr[t].pc = "p_join"
    /\ HasThread(thr[t].n) => JoinReturns(thr[t].n)
    /\ status' = [status EXCEPT ![thr[t].n] = "STOPPED"]
    /\ thr' = [thr EXCEPT ![t] = Finished(t, "stop_ok")]
    /\ UNCHANGED <<listening, udp_socket, message_handlers, pending_acks, ack_received,
                   db_query_callbacks, original_handler, net, loop, uuid, deployed, old, codec, promised>>


(***************************************************************************)
(* The state after construction (__init__, lines 69-98).                   *)
(***************************************************************************)
Constructed(nodes) ==
    /\ status = [n \in Nodes |-> "INITIALIZING"]
    /\ listening = [n \in Nodes |-> FALSE]
    /\ udp_socket = [n \in Nodes |-> "None"]
    /\ message_handlers = [n \in Nodes |-> DefaultHandlers]
    /\ pending_acks = [n \in Nodes |-> {}]
    /\ ack_received = [n \in Nodes |-> {}]
    /\ db_query_callbacks = [n \in Nodes |-> None]
    /\ original_handler = [i \in 1..MaxQueries |-> Absent]
    /\ net = {}
    /\ loop = [n \in Nodes |-> NoLoop]
    /\ thr = [t \in Threads |-> Idle]
    /\ uuid = 0
    /\ deployed = nodes
    /\ old = [n \in Nodes |-> NoLoop]
    /\ codec = NoCodec
    /\ promised = [n \in Nodes |-> [k \in HandlerKeys |-> Absent]]

(***************************************************************************)
(* What the outside world sends to a node.                                 *)
(***************************************************************************)
Ttls == {None} \cup {Some(v) : v \in 0..MaxTime}

\* an envelope of a peer, as the peer's _send_message puts it on the wire
PeerEnvelope(n, id, type, ttl, requires_ack) ==
    NodeMessage(id, type, PriorityNormal, Peer(n), n, AppPayload, 1, ttl, requires_ack)

Without(data, key) == [k \in DOMAIN data \ {key} |-> data[k]]

\* the datagrams that do not decode to an envelope, one of each kind
Malformed(n) ==
    LET good == _serialize_message(PeerEnvelope(n, UntrackedId, "command", None, FALSE))
    IN  {[form |-> f, obj |-> {}] : f \in {"binary", "garbage", "array"}}
        \cup {Encode(Without(good, RequiredKeys[i])) : i \in 1..Len(RequiredKeys)}
        \cup {Encode([good EXCEPT !["type"] = "bogus"]),
              Encode([good EXCEPT !["priority"] = 0])}

WellFormed(n) ==
    {Encode(_serialize_message(PeerEnvelope(n, id, type, ttl, ra))) :
        id \in 0..MaxSends, type \in MessageType, ttl \in Ttls, ra \in BOOLEAN}

FromPeer(n, dgs) == {[to |-> n, from |-> Peer(n), dg |-> dg] : dg \in dgs}

(***************************************************************************)
(* Spec: one node, started by the caller thread t1, which also sends        *)
(* tracked envelopes; t1 registers a "command" handler and t2 a "response" *)
(* handler, at any time; a peer sends the node every datagram of           *)
(* WellFormed and Malformed.                                               *)
(***************************************************************************)
Init == Constructed({"A"})

Start(t, n) ==
    \/ StartBegin(t, n)
    \/ \E bound \in BOOLEAN : StartBind(t, bound)
    \/ StartThread(t)
    \/ StartRunning(t)

Listen(n, pkts, times) ==
    \/ LoopTop(n)
    \/ \E pkt \in pkts : Receive(n, pkt)
    \/ ReceiveTimeout(n)
    \/ \E t \in times : ProcessMessage(n, t)

Dispatch(n) ==
    \/ \E choice \in {"return", "raise", "reply"}, ok \in BOOLEAN :
            RunUserHandler(n, choice, ok, FALSE)
    \/ RunDefaultHandler(n)
    \/ \E ok \in BOOLEAN : SendAck(n, ok, FALSE)
    \/ SkipAck(n)

Next ==
    \/ Start("t1", "A")
    \/ Listen("A", FromPeer("A", WellFormed("A") \cup Malformed("A")), 1..MaxTime)
    \/ Dispatch("A")
    \/ RegisterHandler("t1", "A", "command", Handler("h1"))
    \/ RegisterHandler("t2", "A", "response", Handler("h2"))
    \/ /\ uuid < MaxSends
       /\ \E ok \in BOOLEAN : SendToNode("t1", "A", "B", "command", TRUE, ok, FALSE)

Spec == Init /\ [][Next]_vars


(***************************************************************************)
(* Properties of dispatch, checked under Spec.                             *)
(***************************************************************************)
\* the envelope received last has been through _process_message
Processed(n) == loop[n].pc = "top" /\ loop[n].msg # {} /\ loop[n].t # 0

\* ttl is set and lies before the time t read at receipt
InPast(ttl, t) == ttl # None /\ ttl[1] < t

IsAck(s) == "ack_for" \in DOMAIN s.msg.payload

Acks(n) == SelectSeq(loop[n].sends, IsAck)

\* C2: every received envelope that is neither expired nor consumed as an
\* acknowledgment gets exactly one acknowledgment send if requires_ack is
\* true and none if it is false; the acknowledgment is a RESPONSE to the
\* sender's address with payload {ack_for: id, status: "received"}, and it is
\* the last send of the processing, after the handler returned, raised,
\* replied, or was found missing.
C2_OneAckAfterHandler ==
    \A n \in Nodes :
        /\ loop[n].pc \in {"process", "handler"} => Acks(n) = <<>>
        /\ (Processed(n) /\ ~InPast(Msg(n).ttl, loop[n].t) /\ loop[n].consumed # "acked") =>
            /\ loop[n].outcome \in {"returned", "raised", "nohandler"}
            /\ Len(Acks(n)) = IF Msg(n).requires_ack THEN 1 ELSE 0
            /\ Msg(n).requires_ack =>
                LET a == loop[n].sends[Len(loop[n].sends)]
                IN  /\ IsAck(a)
                    /\ a.addr = loop[n].addr
                    /\ a.msg.type = "response"
                    /\ a.msg.destination = Msg(n).source
                    /\ a.msg.payload = [ack_for |-> Msg(n).message_id, status |-> "received"]

\* a handler that already replied: the reply, then the acknowledgment
C2_Witness ==
    /\ Processed("A") /\ Msg("A").requires_ack /\ loop["A"].outcome = "returned"
    /\ Len(loop["A"].sends) = 2 /\ Len(Acks("A")) = 1

\* C3: a malformed datagram of any kind leaves the receive loop running.
C3_MalformedKeepsLoop ==
    \A n \in Nodes : loop[n].exc # "" => loop[n].pc # "crashed"

\* C4: a handler that raises is caught inside _process_message: the loop goes
\* on to the acknowledgment step with the status unchanged, and from there
\* back to its while test, where the next datagram is received.
C4_HandlerErrorCaught ==
    /\ [](\A n \in Nodes : loop[n].outcome = "raised" =>
            /\ loop[n].pc \in {"ack", "top"}
            /\ loop[n].pc = "top" /\ listening[n] => ENABLED LoopTop(n))
    /\ [][\A n \in Nodes :
            (loop[n].pc = "handler" /\ loop'[n].outcome = "raised") =>
                /\ loop'[n].pc = "ack"
                /\ status' = status /\ listening' = listening]_vars

C4_Witness ==
    /\ Processed("A") /\ loop["A"].outcome = "raised" /\ status["A"] = "RUNNING"
    /\ loop["A"].ran = <<Handler("h1")>>

\* C5: processing a non-expired RESPONSE whose id is a key of pending_acks
\* marks the entry acknowledged, removes it, runs no handler and sends nothing.
C5_PendingAckConsumed ==
    [][\A n \in Nodes :
        (/\ loop[n].pc = "process" /\ loop'[n].pc # "process"
         /\ Msg(n).type = "response"
         /\ Msg(n).message_id \in pending_acks[n]
         /\ ~InPast(Msg(n).ttl, loop'[n].t)) =>
            /\ Msg(n).message_id \notin pending_acks'[n]
            /\ Msg(n).message_id \in ack_received'[n]
            /\ loop'[n].pc = "top"
            /\ loop'[n].ran = <<>> /\ loop'[n].stack = <<>> /\ loop'[n].sends = <<>>
            /\ net' = net]_vars

\* consumed although a "response" handler is registered and an
\* acknowledgment was asked for
C5_Witness ==
    /\ Processed("A") /\ loop["A"].consumed = "acked"
    /\ message_handlers["A"]["response"] = Handler("h2")
    /\ Msg("A").requires_ack
    /\ Msg("A").message_id \in ack_received["A"]

\* C6: an envelope whose ttl is set and in the past at receipt, 0 included,
\* is dropped: no handler runs, nothing is sent, no pending entry is removed.
C6_ExpiredDropped ==
    \A n \in Nodes :
        (loop[n].msg # {} /\ loop[n].t # 0 /\ InPast(Msg(n).ttl, loop[n].t)) =>
            /\ loop[n].consumed = "expired"
            /\ loop[n].ran = <<>> /\ loop[n].sends = <<>>

\* C7 as stated: dispatch without a handler sends no datagram of any kind.
C7_NoHandlerSendsNothing ==
    \A n \in Nodes : loop[n].outcome = "nohandler" => loop[n].sends = <<>>

\* C7, amended: dispatch without a handler raises nothing and leaves status,
\* handlers and pending_acks as they are; it sends no datagram, except the one
\* acknowledgment when the envelope has requires_ack set.
C7_NoHandlerOnlyAcks ==
    /\ [](\A n \in Nodes : loop[n].outcome = "nohandler" =>
            /\ loop[n].pc \in {"ack", "top"}
            /\ loop[n].ran = <<>>
            /\ loop[n].pc = "top" =>
                /\ Len(loop[n].sends) = IF Msg(n).requires_ack THEN 1 ELSE 0
                /\ Acks(n) = loop[n].sends)
    /\ [][\A n \in Nodes :
            (loop'[n] # loop[n] /\ loop'[n].outcome = "nohandler") =>
                /\ status' = status
                /\ message_handlers' = message_handlers
                /\ pending_acks' = pending_acks]_vars

C7_Witness ==
    /\ Processed("A") /\ loop["A"].outcome = "nohandler"
    /\ Msg("A").requires_ack /\ Len(loop["A"].sends) = 1

\* C9: two threads register handlers for two different keys, in any order and
\* at any time: both registrations take effect, no other key's handler
\* changes, and an envelope of either kind is routed to its own handler only.
C9_ConcurrentRegistrations ==
    \A n \in Nodes :
        /\ \A k \in HandlerKeys :
                message_handlers[n][k] =
                    IF promised[n][k] # Absent THEN promised[n][k] ELSE DefaultHandlers[k]
        /\ (Processed(n) /\ loop[n].consumed = "" /\ loop[n].promise # Absent) =>
                loop[n].ran = <<loop[n].promise>>
        /\ loop[n].ran # <<>> =>
                \/ loop[n].ran = <<DefaultHandlers[Msg(n).type]>>
                \/ loop[n].ran = <<promised[n][Msg(n).type]>>

\* both registered, and a "command" envelope went to the "command" handler
C9_Witness ==
    /\ message_handlers["A"]["command"] = Handler("h1")
    /\ message_handlers["A"]["response"] = Handler("h2")
    /\ Processed("A") /\ Msg("A").type = "command" /\ loop["A"].ran = <<Handler("h1")>>


(***************************************************************************)
(* SpecAck: the nodes A and B, each started by its own caller thread,      *)
(* are on the network; the caller of A sends heartbeats and commands to B, *)
(* with and without requires_ack, and B acknowledges.  No envelope has a   *)
(* ttl, so one reading of the clock stands for all.                        *)
(***************************************************************************)
InitAck == Constructed(Nodes)

Caller(n) == IF n = "A" THEN "t1" ELSE "t2"

DispatchAck(n) ==
    \/ RunDefaultHandler(n)
    \/ \E ok, lost \in BOOLEAN : SendAck(n, ok, lost)
    \/ SkipAck(n)

NextAck ==
    \/ \E n \in Nodes :
            \/ Start(Caller(n), n)
            \/ Listen(n, net, {1})
            \/ DispatchAck(n)
    \/ /\ uuid < MaxSends
       /\ \E type \in {"command", "heartbeat"}, ra, ok, lost \in BOOLEAN :
                SendToNode("t1", "A", "B", type, ra, ok, lost)

SpecAck == InitAck /\ [][NextAck]_vars

\* C1: once the acknowledgment RESPONSE of an envelope that this node sent
\* with requires_ack has been processed here, the id of that envelope is no
\* longer a key of pending_acks.
C1_AckClearsPending ==
    \A n \in Nodes :
        (Processed(n) /\ Msg(n).type = "response" /\ IsAck([msg |-> Msg(n)])) =>
            Msg(n).payload.ack_for \notin pending_acks[n]


(***************************************************************************)
(* SpecConc: one node and two caller threads that call query_db, one of    *)
(* which also starts the node and registers "response" handlers, while the *)
(* data service and a peer send the node RESPONSE envelopes.               *)
(***************************************************************************)
InitConc == Constructed({"A"})

\* a RESPONSE as the data service or a peer sends it
Responses(n) ==
    {[to |-> n, from |-> src,
      dg |-> Encode(_serialize_message(
                NodeMessage(UntrackedId, "response", PriorityNormal, src, n,
                            AppPayload, 1, None, FALSE)))] :
        src \in {"db_client", Peer(n)}}

Wrapper(n) ==
    \/ \E choice \in {"return", "raise"} : WrapperEnter(n, choice)
    \/ WrapperPop(n)
    \/ WrapperRestore(n)
    \/ WrapperReturn(n)

Query(t, n) ==
    \/ uuid < MaxIds /\ QueryBegin(t, n)
    \/ QueryHasAttr(t)
    \/ QueryCreate(t)
    \/ QueryStore(t)
    \/ QueryGet(t)
    \/ QueryInstall(t)
    \/ \E ok \in BOOLEAN : QuerySend(t, ok, FALSE)

NextConc ==
    \/ Start("t1", "A")
    \/ Listen("A", Responses("A"), {1})
    \/ \E choice \in {"return", "raise"} : RunUserHandler("A", choice, TRUE, FALSE)
    \/ Wrapper("A")
    \/ SkipAck("A")
    \/ \E h \in UserHandlers : RegisterHandler("t1", "A", "response", h)
    \/ \E t \in Threads : Query(t, "A")

SpecConc == InitConc /\ [][NextConc]_vars

\* C8: a dispatch that starts after register_handler(key, h) returned, with
\* no register_handler or query_db call for that key since, invokes h.
C8_RegisteredHandlerDispatched ==
    \A n \in Nodes :
        loop[n].promise # Absent =>
            /\ loop[n].outcome # "nohandler"
            /\ loop[n].ran # <<>> => loop[n].ran[1] = loop[n].promise
            /\ (loop[n].pc = "handler" /\ loop[n].ran = <<>>) =>
                    loop[n].stack = <<Frame(loop[n].promise)>>


(***************************************************************************)
(* SpecLife: one node and two caller threads that call start() and stop()  *)
(* in any order and at any time, while a peer sends heartbeats.            *)
(***************************************************************************)
InitLife == Constructed({"A"})

Heartbeats(n) ==
    FromPeer(n, {Encode(_serialize_message(
                    PeerEnvelope(n, UntrackedId, "heartbeat", None, ra))) : ra \in BOOLEAN})

Stop(t, n) ==
    \/ StopBegin(t, n)
    \/ StopListening(t)
    \/ StopClose(t)
    \/ StopJoin(t)

NextLife ==
    \/ \E t \in Threads : Start(t, "A")
    \/ \E t \in Threads : Stop(t, "A")
    \/ Listen("A", Heartbeats("A"), {1})
    \/ ReceiveError("A")
    \/ RunDefaultHandler("A")
    \/ \E ok \in BOOLEAN : SendAck("A", ok, FALSE)
    \/ SkipAck("A")

SpecLife == InitLife /\ [][NextLife]_vars

InStop(t) == thr[t].pc \in {"p_listening", "p_close", "p_join"}

OldMsg(n) == CHOOSE m \in old[n].msg : TRUE

OldLoopTop(n) ==
    /\ old[n].pc = "top"
    /\ old' = [old EXCEPT ![n] =
            [NoLoop EXCEPT !.pc = WhileListening(listening[n]), !.data = old[n].data]]
    /\ UNCHANGED <<nodeVars, message_handlers, pending_acks, ack_received, db_query_callbacks,
                   original_handler, net, loop, thr, uuid, deployed, codec, promised>>

OldReceive(n, pkt) ==
    /\ old[n].pc = "recv"
    /\ udp_socket[n] = "bound"
    /\ pkt.to = n
    /\ LET r == Decode(pkt.dg)
           data == IF pkt.dg.form = "binary" THEN "binary" ELSE "utf8"
       IN  old' = [old EXCEPT ![n] =
                [NoLoop EXCEPT !.pc = IF r.exc = "" THEN "process"
                                      ELSE AfterReceiveError(data),
                               !.data = data, !.exc = r.exc,
                               !.msg = r.msg, !.addr = pkt.from]]
    /\ net' = net \ {pkt}
    /\ UNCHANGED <<nodeVars, message_handlers, pending_acks, ack_received, db_query_callbacks,
                   original_handler, loop, thr, uuid, deployed, codec, promised>>

OldReceiveError(n) ==
    /\ old[n].pc = "recv"
    /\ udp_socket[n] = "closed"
    /\ old' = [old EXCEPT ![n].pc = AfterReceiveError(old[n].data)]
    /\ UNCHANGED <<nodeVars, message_handlers, pending_acks, ack_received, db_query_callbacks,
                   original_handler, net, loop, thr, uuid, deployed, codec, promised>>

OldReceiveTimeout(n) ==
    /\ old[n].pc = "recv"
    /\ old' = [old EXCEPT ![n].pc = "top"]
    /\ UNCHANGED <<nodeVars, message_handlers, pending_acks, ack_received, db_query_callbacks,
                   original_handler, net, loop, thr, uuid, deployed, codec, promised>>

OldProcessMessage(n, t) ==
    /\ old[n].pc = "process"
    /\ t \in 1..MaxTime
    /\ LET message == OldMsg(n)
           h == LookupHandler(n, message)
       IN  IF Expired(message, t)
           THEN /\ old' = [old EXCEPT ![n].pc = "top", ![n].t = t, ![n].consumed = "expired"]
                /\ UNCHANGED <<pending_acks, ack_received>>
           ELSE IF IsPendingAck(n, message)
           THEN /\ ack_received' = [ack_received EXCEPT ![n] = @ \cup {message.message_id}]
                /\ pending_acks' = [pending_acks EXCEPT ![n] = @ \ {message.message_id}]
                /\ old' = [old EXCEPT ![n].pc = "top", ![n].t = t, ![n].consumed = "acked"]
           ELSE /\ old' = [old EXCEPT
                        ![n].pc = IF h = Absent THEN "ack" ELSE "handler",
                        ![n].t = t,
                        ![n].stack = IF h = Absent THEN <<>> ELSE <<Frame(h)>>,
                        ![n].outcome = IF h = Absent THEN "nohandler" ELSE ""]
                /\ UNCHANGED <<pending_acks, ack_received>>
    /\ UNCHANGED <<nodeVars, message_handlers, db_query_callbacks, original_handler,
                   net, loop, thr, uuid, deployed, codec, promised>>

OldRunDefaultHandler(n) ==
    /\ old[n].pc = "handler"
    /\ old[n].stack # <<>>
    /\ LET h == Head(old[n].stack).h
           L == [old[n] EXCEPT !.ran = Append(@, h)]
       IN  /\ h.fn \in {"_handle_heartbeat", "_handle_status", "_handle_emergency", "_handle_ack"}
           /\ old' = [old EXCEPT ![n] =
                 IF DefaultHandlerResult(h.fn) = "raise" THEN HandlerRaised(L) ELSE Returned(L)]
    /\ UNCHANGED <<nodeVars, message_handlers, pending_acks, ack_received, db_query_callbacks,
                   original_handler, net, loop, thr, uuid, deployed, codec, promised>>

OldSendAck(n, ok, lost) ==
    /\ old[n].pc = "ack"
    /\ AckRequired(OldMsg(n))
    /\ LET ack == ack_message(n, OldMsg(n), old[n].t)
       IN  /\ _send_message(n, ack, old[n].addr, ok, lost)
           /\ old' = [old EXCEPT ![n].pc = "top",
                                 ![n].sends = Append(@, Sent(ack, old[n].addr, ok))]
    /\ UNCHANGED <<nodeVars, message_handlers, ack_received, db_query_callbacks,
                   original_handler, loop, thr, uuid, deployed, codec, promised>>

OldSkipAck(n) ==
    /\ old[n].pc = "ack"
    /\ ~AckRequired(OldMsg(n))
    /\ old' = [old EXCEPT ![n].pc = "top"]
    /\ UNCHANGED <<nodeVars, message_handlers, pending_acks, ack_received, db_query_callbacks,
                   original_handler, net, loop, thr, uuid, deployed, codec, promised>>

OldListen(n, pkts, times) ==
    \/ OldLoopTop(n)
    \/ \E pkt \in pkts : OldReceive(n, pkt)
    \/ OldReceiveError(n)
    \/ OldReceiveTimeout(n)
    \/ \E t \in times : OldProcessMessage(n, t)
    \/ OldRunDefaultHandler(n)
    \/ \E ok \in BOOLEAN : OldSendAck(n, ok, FALSE)
    \/ OldSkipAck(n)


(***************************************************************************)
(* SpecSeq: one node whose owner thread t1 calls start() and stop() one    *)
(* after the other, in any order, never start() on a RUNNING node; a       *)
(* second thread t2 uses the send API; a peer sends heartbeats.            *)
(***************************************************************************)
InitSeq == Constructed({"A"})

Sends(t, n) ==
    \/ \E ra, ok \in BOOLEAN :
            /\ ra => uuid < MaxSends
            /\ SendToNode(t, n, Peer(n), "data", ra, ok, FALSE)
    \/ \E ra, ok \in BOOLEAN :
            /\ ra => uuid < MaxSends
            /\ SendToMasterCore(t, n, "status", ra, ok, FALSE)

NextSeq ==
    \/ Start("t1", "A")
    \/ StartBeginAlive("t1", "A")
    \/ Stop("t1", "A")
    \/ Listen("A", Heartbeats("A"), {1})
    \/ ReceiveError("A")
    \/ RunDefaultHandler("A")
    \/ \E ok \in BOOLEAN : SendAck("A", ok, FALSE)
    \/ SkipAck("A")
    \/ OldListen("A", Heartbeats("A"), {1})
    \/ Sends("t2", "A")

SpecSeq == InitSeq /\ [][NextSeq]_vars

LifecycleOrder == <<"INITIALIZING", "STARTING", "RUNNING", "STOPPING", "STOPPED">>

Rank(s) == CHOOSE i \in 1..Len(LifecycleOrder) : LifecycleOrder[i] = s

Linear(s) == \E i \in 1..Len(LifecycleOrder) : LifecycleOrder[i] = s

\* C12: over start() and stop() calls made one after the other, a status of
\* STOPPED never changes again, and the status never moves backwards in the
\* order INITIALIZING, STARTING, RUNNING, STOPPING, STOPPED.
C12_StoppedTerminal ==
    [][\A n \in Nodes :
        /\ status[n] = "STOPPED" => status'[n] = "STOPPED"
        /\ (Linear(status[n]) /\ Linear(status'[n])) => Rank(status'[n]) >= Rank(status[n])]_vars

\* C14: never are two handler invocations in progress on one node.
C14_OneHandlerAtATime ==
    \A n \in Nodes : ~(loop[n].pc = "handler" /\ old[n].pc = "handler")

\* C15: in each of the statuses INITIALIZING, RUNNING, ERROR and STOPPED,
\* send_to_node for a configured peer and send_to_master_core can transmit
\* the datagram and return true.
C15_SendInEveryStatus ==
    \A n \in deployed :
        status[n] \in {"INITIALIZING", "RUNNING", "ERROR", "STOPPED"} =>
            /\ ENABLED SendToNode("t2", n, Peer(n), "data", FALSE, TRUE, FALSE)
            /\ ENABLED SendToMasterCore("t2", n, "status", FALSE, TRUE, FALSE)


(***************************************************************************)
(* SpecStop: the node of SpecSeq without the second caller, where start()  *)
(* is not called again before the listen thread of the earlier start() has *)
(* ended.  The listen thread keeps running (a recvfrom returns within its  *)
(* one-second timeout, a handler that was called returns or raises) and a  *)
(* stop() that was called runs on to its return.                           *)
(***************************************************************************)
InitStop == Constructed({"A"})

LoopStep(n) ==
    \/ Listen(n, Heartbeats(n), 1..MaxTime)
    \/ ReceiveError(n)
    \/ RunDefaultHandler(n)
    \/ \E ok \in BOOLEAN : SendAck(n, ok, FALSE)
    \/ SkipAck(n)

NextStop ==
    \/ Start("t1", "A")
    \/ Stop("t1", "A")
    \/ LoopStep("A")

SpecStop ==
    /\ InitStop /\ [][NextStop]_vars
    /\ WF_vars(LoopStep("A"))
    /\ WF_vars(Stop("t1", "A"))

\* C13: after stop() is called on a RUNNING node the listen thread ends and
\* the socket is closed; a handler that is in progress runs to its end; and
\* while the status is STOPPED no datagram is taken from the socket, so no
\* handler is invoked for it.
C13_StopEndsLoop ==
    /\ \A t \in Threads :
            (InStop(t) /\ thr[t].from = "RUNNING") ~>
                (~LoopAlive("A") /\ udp_socket["A"] = "closed")
    /\ \A n \in {"A"} : (loop[n].pc = "handler") ~> (loop[n].pc = "ack")
    /\ [](\A n \in {"A"} : loop[n].pc = "handler" => ENABLED RunDefaultHandler(n))
    /\ [][\A n \in {"A"} :
            status[n] = "STOPPED" => ~(loop[n].pc = "recv" /\ loop'[n].pc = "process")]_vars

\* stop() has returned at the join timeout while a handler is in progress
C13_Witness ==
    /\ status["A"] = "STOPPED" /\ thr["t1"].ret = "stop_ok"
    /\ udp_socket["A"] = "closed" /\ ~listening["A"]
    /\ loop["A"].pc = "handler"


(***************************************************************************)
(* send_emergency (lines 205-226), one target of the loop per step.  todo  *)
(* is target_nodes, count is success_count, and log records for each       *)
(* target handled so far what became of it: "noaddr" (no configured        *)
(* address), "failed" (_send_message returned False) or "sent".            *)
(***************************************************************************)
\* a count of the targets that have an address, sent to or not
success_count_Attempts(count, sent) == count + 1

\* lines 222-223
success_count(count, sent) == IF sent THEN count + 1 ELSE count

\* lines 207-218
EmergencyBegin(t, n, target_nodes) ==
    /\ thr[t].pc = "idle"
    /\ uuid < MaxIds
    /\ uuid' = uuid + 1
    /\ thr' = [thr EXCEPT ![t] = [Busy(t, "e_loop", n, uuid + 1) EXCEPT !.todo = target_nodes]]
    /\ UNCHANGED <<nodeVars, message_handlers, pending_acks, ack_received, db_query_callbacks,
                   original_handler, net, loop, deployed, old, codec, promised>>

\* lines 219-223, for the next target of the list
EmergencyTarget(t, ok, lost) ==
    /\ thr[t].pc = "e_loop"
    /\ Len(thr[t].log) < Len(thr[t].todo)
    /\ LET n == thr[t].n
           target_node == thr[t].todo[Len(thr[t].log) + 1]
           target_addr == _get_node_address(n, target_node)
           message == NodeMessage(thr[t].id, "emergency", PriorityEmergency, n, "multiple",
                                  AppPayload, 1, None, TRUE)
       IN  IF target_addr # None
           THEN /\ _send_message(n, message, target_addr[1], ok, lost)
                /\ thr' = [thr EXCEPT
                      ![t].count = success_count(@, ok),
                      ![t].log = Append(@, [target |-> target_node,
                                            result |-> IF ok THEN "sent" ELSE "failed"])]
           ELSE /\ ok /\ ~lost
                /\ thr' = [thr EXCEPT
                      ![t].log = Append(@, [target |-> target_node, result |-> "noaddr"])]
                /\ UNCHANGED <<pending_acks, net>>
    /\ UNCHANGED <<nodeVars, message_handlers, ack_received, db_query_callbacks,
                   original_handler, loop, uuid, deployed, old, codec, promised>>

\* lines 225-226
EmergencyReturn(t) ==
    /\ thr[t].pc = "e_loop"
    /\ Len(thr[t].log) = Len(thr[t].todo)
    /\ thr' = [thr EXCEPT ![t] =
            Finished(t, IF thr[t].count > 0 THEN "emergency_true" ELSE "emergency_false")]
    /\ UNCHANGED <<nodeVars, message_handlers, pending_acks, ack_received, db_query_callbacks,
                   original_handler, net, loop, uuid, deployed, old, codec, promised>>

(***************************************************************************)
(* SpecEmergency: thread t1 calls send_emergency with every list of at     *)
(* most MaxTargets names, of which "ghost" has no configured address,      *)
(* while thread t2 starts and stops the node.                              *)
(***************************************************************************)
InitEmergency == Constructed({"A"})

TargetNames == {"B", "db_client", "ghost"}

TargetLists == UNION {[1..k -> TargetNames] : k \in 0..MaxTargets}

SendEmergency(t, n) ==
    \/ \E target_nodes \in TargetLists : EmergencyBegin(t, n, target_nodes)
    \/ \E ok \in BOOLEAN : EmergencyTarget(t, ok, FALSE)
    \/ EmergencyReturn(t)

NextEmergency ==
    \/ SendEmergency("t1", "A")
    \/ Start("t2", "A")
    \/ Stop("t2", "A")
    \/ LoopTop("A")
    \/ ReceiveTimeout("A")
    \/ ReceiveError("A")

SpecEmergency == InitEmergency /\ [][NextEmergency]_vars

SentTo(log) == {i \in 1..Len(log) : log[i].result = "sent"}

\* C16: when send_emergency returns, every target of the list has been
\* handled in order, a target is skipped for want of an address exactly when
\* the configuration has none for it, success_count is the number of targets
\* whose send succeeded, and the result is true exactly when that number is
\* not zero (so false for the empty list).
C16_EmergencyResult ==
    [][\A t \in Threads :
        (thr[t].pc = "e_loop" /\ thr'[t].pc = "idle") =>
            LET log == thr[t].log
                todo == thr[t].todo
            IN  /\ Len(log) = Len(todo)
                /\ \A i \in 1..Len(log) :
                        /\ log[i].target = todo[i]
                        /\ log[i].result = "noaddr" <=> todo[i] \notin known_nodes(thr[t].n)
                /\ thr[t].count = Cardinality(SentTo(log))
                /\ thr'[t].ret = "emergency_true" <=> SentTo(log) # {}
                /\ thr'[t].ret \in {"emergency_true", "emergency_false"}
                /\ todo = <<>> => thr'[t].ret = "emergency_false"]_vars

\* three targets, the second without an address, the third sent to after
\* the send to the first one failed
C16_Witness ==
    /\ thr["t1"].pc = "e_loop"
    /\ thr["t1"].todo = <<"B", "ghost", "db_client">>
    /\ Len(thr["t1"].log) = 3
    /\ thr["t1"].log[1].result = "failed" /\ thr["t1"].log[3].result = "sent"
    /\ thr["t1"].count = 1


(***************************************************************************)
(* SpecQuery: one node, started by t1; a "response" handler may be         *)
(* registered before the first query_db call and not after; both caller    *)
(* threads call query_db with a callback; the data service and a peer send *)
(* RESPONSE envelopes.                                                     *)
(***************************************************************************)
InitQuery == Constructed({"A"})

NextQuery ==
    \/ Start("t1", "A")
    \/ Listen("A", Responses("A"), {1})
    \/ \E choice \in {"return", "raise"} : RunUserHandler("A", choice, TRUE, FALSE)
    \/ Wrapper("A")
    \/ SkipAck("A")
    \/ /\ uuid = 0
       /\ RegisterHandler("t1", "A", "response", Handler("h1"))
    \/ \E t \in Threads : Query(t, "A")

SpecQuery == InitQuery /\ [][NextQuery]_vars

\* the response_handler on top of the call is at its last statement, having
\* called the callback and removed the entry
Servicing(n) == InHandler(n) /\ Top(n).h.fn = "response_handler" /\ Top(n).pc = "popped"

\* C17: when the wrapper of a query has serviced a RESPONSE of the data
\* service (callback called once, entry removed) and returns, the "response"
\* entry of the dispatch table is what it was before the query: the prior
\* handler, or no handler if there was none; the wrapper is not installed.
C17_SingleShotRestores ==
    [][\A n \in Nodes :
        (Servicing(n) /\ loop'[n] # loop[n]) =>
            LET q == Top(n).h.q
            IN  /\ Len(SelectSeq(loop[n].ran, LAMBDA h : h = Callback(q))) = 1
                /\ (db_query_callbacks'[n] # None /\ q \notin db_query_callbacks'[n][1])
                /\ message_handlers'[n]["response"] # response_handler(q)
                /\ message_handlers'[n]["response"] = original_handler[q]]_vars

\* the RESPONSE being dispatched is one that the wrapper of query q services
Services(n, q, message) == FromResponder(n, message) /\ CallbackWaiting(n, q)

\* C18: a response_handler that is called with a RESPONSE it does not service
\* (wrong source, wrong destination, or no entry left for its query) calls
\* the handler that was registered before it, whenever there was one.
C18_NonMatchingForwarded ==
    [][\A n \in Nodes :
        (/\ InHandler(n) /\ Top(n).h.fn = "response_handler" /\ Top(n).pc = "enter"
         /\ loop'[n] # loop[n]
         /\ ~Services(n, Top(n).h.q, Msg(n))
         /\ original_handler[Top(n).h.q] # Absent) =>
            /\ loop'[n].stack # <<>>
            /\ Head(loop'[n].stack) = Frame(original_handler[Top(n).h.q])]_vars

\* the queries whose response_handler is reached from handler h through at
\* most k original_handler links
RECURSIVE Chain(_, _)
Chain(h, k) ==
    IF h.fn # "response_handler" \/ k = 0 THEN {}
    ELSE {h.q} \cup Chain(original_handler[h.q], k - 1)

\* query_db call q has installed its wrapper (line 479 done, or returned)
Installed(n, q) ==
    /\ q \in 1..uuid
    /\ ~\E t \in Threads :
            /\ thr[t].id = q
            /\ thr[t].pc \in {"q_hasattr", "q_create", "q_store", "q_get", "q_install"}

\* C19: every query whose wrapper was installed and whose callback still
\* waits in the pending-query table has its wrapper in the chain of
\* "response" handlers, so that a response of the data service can reach it.
C19_WrappersReachable ==
    \A n \in deployed :
        \A q \in 1..MaxIds :
            (Installed(n, q) /\ CallbackWaiting(n, q)) =>
                q \in Chain(message_handlers[n]["response"], MaxIds)


(***************************************************************************)
(* SpecCodec: envelopes of every kind, priority, ttl, requires_ack and     *)
(* ack_received are taken through _serialize_message and then              *)
(* _deserialize_message.                                                   *)
(***************************************************************************)
InitCodec == Constructed({"A"})

Payloads == {AppPayload, [ack_for |-> 1, status |-> "received"]}

ValidEnvelopes ==
    {[NodeMessage(id, type, priority, "A", destination, payload, timestamp, ttl, ra)
        EXCEPT !.ack_received = acked] :
        id \in {UntrackedId, 1}, type \in MessageType, priority \in Priority,
        destination \in {"B", "multiple"}, payload \in Payloads,
        timestamp \in 1..MaxTime, ttl \in Ttls, ra \in BOOLEAN, acked \in BOOLEAN}

\* an envelope is constructed, one in a run
CodecNew(e) ==
    /\ codec.pc = "idle"
    /\ codec' = [NoCodec EXCEPT !.pc = "made", !.e = {e}]
    /\ UNCHANGED <<nodeVars, message_handlers, pending_acks, ack_received, db_query_callbacks,
                   original_handler, net, loop, thr, uuid, deployed, old, promised>>

CodecSerialize ==
    /\ codec.pc = "made"
    /\ codec' = [codec EXCEPT !.pc = "serialized",
                              !.data = {_serialize_message(m) : m \in codec.e}]
    /\ UNCHANGED <<nodeVars, message_handlers, pending_acks, ack_received, db_query_callbacks,
                   original_handler, net, loop, thr, uuid, deployed, old, promised>>

CodecDeserialize ==
    /\ codec.pc = "serialized"
    /\ LET r == _deserialize_message(CHOOSE d \in codec.data : TRUE)
       IN  codec' = [codec EXCEPT !.pc = IF r.exc = "" THEN "done" ELSE "raised",
                                  !.out = r.msg]
    /\ UNCHANGED <<nodeVars, message_handlers, pending_acks, ack_received, db_query_callbacks,
                   original_handler, net, loop, thr, uuid, deployed, old, promised>>

NextCodec ==
    \/ \E e \in ValidEnvelopes : CodecNew(e)
    \/ CodecSerialize
    \/ CodecDeserialize

SpecCodec == InitCodec /\ [][NextCodec]_vars

\* C20: _deserialize_message(_serialize_message(e)) raises nothing and has
\* the id, kind, priority, source, destination, payload, timestamp, ttl and
\* requires_ack of e.
C20_RoundTrip ==
    codec.pc \in {"done", "raised"} =>
        /\ codec.pc = "done"
        /\ \E e \in codec.e : \E o \in codec.out :
             /\ codec.out = {o}
             /\ o.message_id = e.message_id
             /\ o.type = e.type
             /\ o.priority = e.priority
             /\ o.source = e.source
             /\ o.destination = e.destination
             /\ o.payload = e.payload
             /\ o.timestamp = e.timestamp
             /\ o.ttl = e.ttl
             /\ o.requires_ack = e.requires_ack

\* an EMERGENCY envelope with a ttl, requires_ack and a set ack_received:
\* the decoded envelope differs from it in ack_received only
C20_Witness ==
    /\ codec.pc = "done"
    /\ \E e \in codec.e :
         /\ e.type = "emergency" /\ e.priority = PriorityEmergency
         /\ e.ttl = Some(MaxTime) /\ e.requires_ack /\ e.ack_received
         /\ codec.out = {[e EXCEPT !.ack_received = FALSE]}


(***************************************************************************)
(* SpecDecode: _deserialize_message is given dicts that lack up to         *)
(* MaxMissing of the keys of a serialized envelope, with every kind and    *)
(* priority value and values that are neither, with or without a key the   *)
(* envelope does not have.                                                 *)
(***************************************************************************)
InitDecode == Constructed({"A"})

WireKeys ==
    {"message_id", "type", "priority", "source", "destination", "payload", "timestamp",
     "ttl", "requires_ack", "extra"}

WireDicts ==
    {[k \in WireKeys \ missing |->
        CASE k = "type" -> type
          [] k = "priority" -> priority
          [] k = "extra" -> "x"
          [] OTHER -> _serialize_message(PeerEnvelope("A", 1, "data", Some(MaxTime), TRUE))[k]] :
        missing \in {m \in SUBSET WireKeys : Cardinality(m) <= MaxMissing},
        type \in MessageType \cup {"bogus"},
        priority \in 0..6}

\* a dict comes out of json.loads
CodecReceive(d) ==
    /\ codec.pc = "idle"
    /\ codec' = [NoCodec EXCEPT !.pc = "serialized", !.data = {d}]
    /\ UNCHANGED <<nodeVars, message_handlers, pending_acks, ack_received, db_query_callbacks,
                   original_handler, net, loop, thr, uuid, deployed, old, promised>>

NextDecode ==
    \/ \E d \in WireDicts : CodecReceive(d)
    \/ CodecDeserialize

SpecDecode == InitDecode /\ [][NextDecode]_vars

RequiredFields ==
    {"message_id", "type", "priority", "source", "destination", "payload", "timestamp"}

Recognized(d) ==
    /\ RequiredFields \subseteq DOMAIN d
    /\ d["type"] \in {"command", "response", "status", "emergency", "heartbeat", "data"}
    /\ d["priority"] \in {1, 2, 3, 4, 5}

\* C21: decoding raises, and yields no envelope, exactly when a required
\* field is absent or the kind or the priority is not a recognized value;
\* otherwise it yields the envelope with the fields of the dict, ttl unset
\* when absent and requires_ack false when absent, whatever extra key is there.
C21_DecodeRejects ==
    codec.pc \in {"done", "raised"} =>
        \E d \in codec.data :
            /\ codec.pc = "done" <=> Recognized(d)
            /\ codec.pc = "raised" => codec.out = {}
            /\ codec.pc = "done" =>
                \E o \in codec.out :
                    /\ codec.out = {o}
                    /\ \A k \in RequiredFields : o[k] = d[k]
                    /\ o.ttl = IF "ttl" \in DOMAIN d THEN d["ttl"] ELSE None
                    /\ o.requires_ack =
                            IF "requires_ack" \in DOMAIN d THEN d["requires_ack"] ELSE FALSE

\* decoded without ttl and requires_ack, with the extra key
C21_Witness ==
    /\ codec.pc = "done"
    /\ \E d \in codec.data :
         /\ DOMAIN d = RequiredFields \cup {"extra"}
         /\ \E o \in codec.out : o.ttl = None /\ ~o.requires_ack /\ o.type = "status"


(***************************************************************************)
(* Further properties of dispatch and of pending_acks, checked under Spec. *)
(***************************************************************************)
IsReply(s) == ~IsAck(s)

Replies(n) == SelectSeq(loop[n].sends, IsReply)

\* C22: a non-expired STATUS envelope processed with the default handlers
\* gets exactly one RESPONSE sent to the sender's address, with destination
\* the source of the request.
C22_StatusReplies ==
    \A n \in Nodes :
        (/\ Processed(n) /\ Msg(n).type = "status"
         /\ ~InPast(Msg(n).ttl, loop[n].t)
         /\ message_handlers[n]["status"] = DefaultHandlers["status"]) =>
            /\ Len(Replies(n)) = 1
            /\ Replies(n)[1].addr = loop[n].addr
            /\ Replies(n)[1].msg.type = "response"
            /\ Replies(n)[1].msg.destination = Msg(n).source

\* C23: an id enters pending_acks only in a send of this node that succeeded
\* for an envelope with requires_ack; a failed send leaves pending_acks as it
\* is; and an id leaves pending_acks only when a RESPONSE with that id whose
\* ttl has not passed is processed.
C23_PendingAcksDiscipline ==
    [][\A n \in Nodes :
        /\ \A id \in pending_acks'[n] \ pending_acks[n] :
                /\ uuid' = uuid + 1 /\ id = uuid'
                /\ \E t \in Threads : thr'[t].ret = "sent"
        /\ (uuid' # uuid /\ \E t \in Threads : thr'[t].ret = "send_failed") =>
                pending_acks' = pending_acks
        /\ \A id \in pending_acks[n] \ pending_acks'[n] :
                /\ loop[n].pc = "process" /\ loop'[n].consumed = "acked"
                /\ Msg(n).type = "response" /\ Msg(n).message_id = id
                /\ ~InPast(Msg(n).ttl, loop'[n].t)]_vars


(***************************************************************************)
(* Properties of the acknowledgment exchange, checked under SpecAck.       *)
(***************************************************************************)
\* the envelope in processing is itself an acknowledgment
AckInHand(n) == loop[n].msg # {} /\ IsAck([msg |-> Msg(n)])

\* C24: acknowledgments never cascade: every acknowledgment a node sends has
\* requires_ack false and leaves pending_acks as it was, it is sent while a
\* requires_ack envelope that is not an acknowledgment is processed, and it
\* is the only acknowledgment for that envelope; so processing an
\* acknowledgment sends no acknowledgment and the exchange ends.
C24_AcksNeverCascade ==
    [][\A n \in Nodes :
        Len(SelectSeq(loop'[n].sends, IsAck)) > Len(Acks(n)) =>
            /\ loop'[n].sends[Len(loop'[n].sends)].msg.requires_ack = FALSE
            /\ pending_acks' = pending_acks
            /\ ~AckInHand(n)
            /\ Msg(n).requires_ack
            /\ Len(SelectSeq(loop'[n].sends, IsAck)) = 1]_vars

\* A has processed the acknowledgment B sent and answered nothing
C24_Witness ==
    /\ Processed("A") /\ AckInHand("A")
    /\ Msg("A").source = "B" /\ Msg("A").requires_ack = FALSE
    /\ loop["A"].sends = <<>>
    /\ pending_acks["B"] = {}


(***************************************************************************)
(* SpecKeys: one node whose class registers handlers under custom keys     *)
(* (TemplateNode, SimpleNode) and under the kind "command", at any time;   *)
(* a peer sends envelopes of every kind whose payload names a custom key   *)
(* or "ack", acknowledgment payloads, and datagrams whose kind is a custom *)
(* key.                                                                    *)
(***************************************************************************)
InitKeys == Constructed({"A"})

KeyedPayloads ==
    {[command |-> k] : k \in {"increment", "template_command", "ack"}}
    \cup {[ack_for |-> 1, status |-> "received"], AppPayload}

KeyedEnvelopes(n) ==
    {NodeMessage(UntrackedId, type, PriorityNormal, Peer(n), n, payload, 1, None, ra) :
        type \in MessageType, payload \in KeyedPayloads, ra \in BOOLEAN}

\* a datagram whose "type" is a handler key that is no kind
KindIsKey(n) ==
    LET good == _serialize_message(PeerEnvelope(n, UntrackedId, "command", None, FALSE))
    IN  {Encode([good EXCEPT !["type"] = k]) : k \in {"increment", "ack"}}

KeyedDatagrams(n) ==
    {Encode(_serialize_message(e)) : e \in KeyedEnvelopes(n)} \cup KindIsKey(n)

NextKeys ==
    \/ Start("t1", "A")
    \/ Listen("A", FromPeer("A", KeyedDatagrams("A")), {1})
    \/ Dispatch("A")
    \/ \E k \in CustomKeys : RegisterHandler("t2", "A", k, Handler("h1"))
    \/ RegisterHandler("t2", "A", "command", Handler("h2"))

SpecKeys == InitKeys /\ [][NextKeys]_vars

\* the handlers registered under keys that are no kind values
NonKindHandlers(n) == {message_handlers[n][k] : k \in HandlerKeys \ MessageType} \ {Absent}

\* C25: dispatch looks handlers up by the envelope's kind value only: every
\* handler that runs is the one registered under the kind of the envelope
\* in processing, and a handler registered under a key that is no kind
\* value ("ack", "template_command", "get_data", "set_data", "increment")
\* never runs, whatever the payload.
C25_DispatchByKindOnly ==
    \A n \in Nodes : \A i \in 1..Len(loop[n].ran) :
        /\ loop[n].ran[i] = message_handlers[n][Msg(n).type]
        /\ loop[n].ran[i] \notin NonKindHandlers(n)

\* a command whose payload names "increment", with a handler registered
\* under "increment": the "command" handler ran
C25_Witness ==
    /\ Processed("A") /\ Msg("A").type = "command"
    /\ Msg("A").payload = [command |-> "increment"]
    /\ message_handlers["A"]["increment"] = Handler("h1")
    /\ loop["A"].ran = <<Handler("h2")>>

\* an envelope of a kind without handler whose payload names "ack"
C25_WitnessAck ==
    /\ Processed("A") /\ Msg("A").type = "data"
    /\ Msg("A").payload = [command |-> "ack"]
    /\ message_handlers["A"]["ack"] = DefaultHandlers["ack"]
    /\ loop["A"].ran = <<>> /\ loop["A"].outcome = "nohandler"


(***************************************************************************)
(* Properties of a failed query_db call, checked under SpecQuery.          *)
(***************************************************************************)
\* C26: a query_db call that returns false because sending the request
\* failed has no lasting effect: when it returns, the "response" entry of
\* the dispatch table is the handler that was there before the call, and
\* the call's callback is not among the pending-query callbacks.
C26_FailedQueryLeavesNothing ==
    [][\A t \in Threads :
        (thr[t].pc = "q_send" /\ thr'[t].ret = "query_false") =>
            /\ message_handlers'[thr[t].n]["response"] = thr[t].orig
            /\ thr[t].id \notin db_query_callbacks'[thr[t].n][1]]_vars


(***************************************************************************)
(* SpecLifo: one node and one caller thread that starts it and calls       *)
(* query_db with a callback, one call after the other, each request sent;  *)
(* a "response" handler may be registered before the first query; the data *)
(* service and a peer send RESPONSE envelopes at any time, so that the     *)
(* listen thread may process one while query_db runs.                      *)
(***************************************************************************)
InitLifo == Constructed({"A"})

QuerySent(t, n) ==
    \/ QueryBegin(t, n)
    \/ QueryHasAttr(t)
    \/ QueryCreate(t)
    \/ QueryStore(t)
    \/ QueryGet(t)
    \/ QueryInstall(t)
    \/ QuerySend(t, TRUE, FALSE)

NextLifo ==
    \/ Start("t1", "A")
    \/ Listen("A", Responses("A"), {1})
    \/ \E choice \in {"return", "raise"} : RunUserHandler("A", choice, TRUE, FALSE)
    \/ Wrapper("A")
    \/ SkipAck("A")
    \/ /\ uuid = 0
       /\ RegisterHandler("t1", "A", "response", Handler("h1"))
    \/ QuerySent("t1", "A")

SpecLifo == InitLifo /\ [][NextLifo]_vars

\* the queries whose query_db call returned and whose callback still waits
Outstanding(n) ==
    {q \in 1..uuid : CallbackWaiting(n, q) /\ ~\E t \in Threads : thr[t].id = q}

MostRecent(O) == CHOOSE q \in O : \A r \in O : r <= q

IsCallback(h) == h.fn = "callback"

\* C27: with several queries outstanding, issued one after another from one
\* thread, a RESPONSE of the data service addressed to this node that is
\* dispatched while no query_db call is running goes to the wrapper of the
\* most recently issued outstanding query, and a wrapper whose callback
\* waits invokes that one callback and no other.
C27_LifoServicing ==
    [][\A n \in Nodes :
        /\ (/\ loop[n].pc = "process" /\ loop'[n].pc \in {"handler", "ack"}
            /\ FromResponder(n, Msg(n))
            /\ ~InQuery(n)
            /\ Cardinality(Outstanding(n)) >= 2) =>
                /\ loop'[n].pc = "handler"
                /\ loop'[n].stack[1].h = response_handler(MostRecent(Outstanding(n)))
        /\ (/\ InHandler(n) /\ Top(n).h.fn = "response_handler" /\ Top(n).pc = "enter"
            /\ loop[n].ran = <<>> /\ loop'[n] # loop[n]
            /\ FromResponder(n, Msg(n))
            /\ CallbackWaiting(n, Top(n).h.q)) =>
                SelectSeq(loop'[n].ran, IsCallback) = <<Callback(Top(n).h.q)>>]_vars


(***************************************************************************)
(* stop() called by a message handler, that is, on the listen thread       *)
(* itself.  The frame of the handler goes through the statements of        *)
(* stop(): "enter" (line 125), "p_listening" (line 126), "p_close" (lines  *)
(* 127-128), "p_join" (lines 129-134).                                     *)
(***************************************************************************)
\* a handler of the application whose body calls self.stop()
StopHandler == Handler("stop")

\* line 125
HandlerStopBegin(n) ==
    /\ InHandler(n)
    /\ Top(n).h = StopHandler /\ Top(n).pc = "enter"
    /\ status' = [status EXCEPT ![n] = "STOPPING"]
    /\ loop' = [loop EXCEPT ![n].ran = Append(@, StopHandler),
                            ![n].stack[1].pc = "p_listening"]
    /\ UNCHANGED <<listening, udp_socket, message_handlers, pending_acks, ack_received,
                   db_query_callbacks, original_handler, net, thr, uuid, deployed, old, codec, promised>>

\* line 126
HandlerStopListening(n) ==
    /\ InHandler(n)
    /\ Top(n).h = StopHandler /\ Top(n).pc = "p_listening"
    /\ listening' = [listening EXCEPT ![n] = FALSE]
    /\ loop' = [loop EXCEPT ![n].stack[1].pc = "p_close"]
    /\ UNCHANGED <<status, udp_socket, message_handlers, pending_acks, ack_received,
                   db_query_callbacks, original_handler, net, thr, uuid, deployed, old, codec, promised>>

\* lines 127-128: the listen thread runs on a socket object, bound or closed
HandlerStopClose(n) ==
    /\ InHandler(n)
    /\ Top(n).h = StopHandler /\ Top(n).pc = "p_close"
    /\ udp_socket' = [udp_socket EXCEPT ![n] = IF HasSocket(@) THEN "closed" ELSE @]
    /\ loop' = [loop EXCEPT ![n].stack[1].pc = "p_join"]
    /\ UNCHANGED <<status, listening, message_handlers, pending_acks, ack_received,
                   db_query_callbacks, original_handler, net, thr, uuid, deployed, old, codec, promised>>

\* line 130 executed by the listen thread: Thread.join on the current thread
\* raises RuntimeError ("cannot join current thread"), whatever the timeout
JoinCurrentThread == "raises"

\* lines 129-134: self.listen_thread is the running thread; the RuntimeError
\* is caught by line 133, line 131 is skipped, stop() and the handler return
HandlerStopJoin(n) ==
    /\ InHandler(n)
    /\ Top(n).h = StopHandler /\ Top(n).pc = "p_join"
    /\ status' = [status EXCEPT ![n] =
            IF HasThread(n) /\ JoinCurrentThread = "raises" THEN @ ELSE "STOPPED"]
    /\ loop' = [loop EXCEPT ![n] = Returned(loop[n])]
    /\ UNCHANGED <<listening, udp_socket, message_handlers, pending_acks, ack_received,
                   db_query_callbacks, original_handler, net, thr, uuid, deployed, old, codec, promised>>

HandlerStop(n) ==
    \/ HandlerStopBegin(n)
    \/ HandlerStopListening(n)
    \/ HandlerStopClose(n)
    \/ HandlerStopJoin(n)

(***************************************************************************)
(* SpecSelfStop: one node, started by the caller thread t1, which also     *)
(* registers the stopping handler for "command"; a peer sends commands;    *)
(* the caller thread t2 (or the signal handler, which runs stop() on the   *)
(* main thread) calls stop() as well.                                      *)
(***************************************************************************)
InitSelfStop == Constructed({"A"})

Commands(n) ==
    FromPeer(n, {Encode(_serialize_message(
                    PeerEnvelope(n, UntrackedId, "command", None, ra))) : ra \in BOOLEAN})

NextSelfStop ==
    \/ Start("t1", "A")
    \/ RegisterHandler("t1", "A", "command", StopHandler)
    \/ Listen("A", Commands("A"), {1})
    \/ ReceiveError("A")
    \/ HandlerStop("A")
    \/ \E ok \in BOOLEAN : SendAck("A", ok, FALSE)
    \/ SkipAck("A")
    \/ Stop("t2", "A")

SpecSelfStop == InitSelfStop /\ [][NextSelfStop]_vars

\* C28: every stop() that returns leaves status STOPPED, whether it was
\* called by a caller thread (or the signal handler) or by a message
\* handler running on the listen thread.
C28_StopLeavesStopped ==
    [][/\ \A t \in Threads :
            (InStop(t) /\ thr'[t].pc = "idle") => status'[thr[t].n] = "STOPPED"
       /\ \A n \in Nodes :
            (/\ InHandler(n) /\ Top(n).h = StopHandler /\ Top(n).pc = "p_join"
             /\ loop'[n] # loop[n]) => status'[n] = "STOPPED"]_vars

\* the part of C28 about caller threads
C28_CallerStopLeavesStopped ==
    [][\A t \in Threads :
            (InStop(t) /\ thr'[t].pc = "idle") => status'[thr[t].n] = "STOPPED"]_vars

====
